---------------------------- MODULE Spec2Model ----------------------------
(***************************************************************************)
(* Text-Cut: segmentation of raw text into cards (services/geminiService)  *)
(* and the card list kept by the application (App.tsx, components/Card).   *)
(*                                                                         *)
(* Strings are TLA+ strings; TLC evaluates Len, \o and SubSeq on them.     *)
(* Positions inside a string are 1-based here, 0-based in the source.      *)
(* The alphabet is ASCII: the CJK punctuation of the header heuristic is   *)
(* outside the texts the model enumerates.                                 *)
(***************************************************************************)
EXTENDS Integers, Sequences, FiniteSets, TLC

VARIABLES
    text,             \* splitTextIntoCards: the argument
    pc,               \* splitTextIntoCards: position in the call
    response,         \* splitTextIntoCards: how the service call settled
    rawParagraphs,    \* fallback: const rawParagraphs
    partIdx,          \* fallback: index of forEach (1-based)
    fb,               \* fallback: segments, currentChunk, currentTitle, partCounter
    pushedInContext,  \* history: segments pushed since the title context was installed
    result,           \* splitTextIntoCards: the value the promise resolves to
    inputText,        \* App: inputText
    cards,            \* App: cards
    uiAlive,          \* App: the component tree is mounted (no render has thrown)
    isProcessing,     \* App: isProcessing
    editingIndex,     \* App: editingIndex, 1-based; 0 stands for null
    callText,         \* App: argument of the pending splitTextIntoCards call
    comps,            \* Card components by position (key = idx): isEditing,
                      \* editTitle, editContent, editImage, currentLayout
    ops,              \* number of user operations on the cards so far
    activeCardIndexForUpload,  \* App: activeCardIndexForUpload.current, 1-based,
                      \* while a file read is in flight; 0 stands for null
    boldText,         \* bold runs: the text argument
    boldRange,        \* bold runs: the storage range <<start, end>>
    boldRuns,         \* bold runs: value of buildSegments(text)
    boldRendered,     \* bold runs: value of renderSegments of the runs
    boldIndexMap,     \* bold runs: value of buildIndexMap(text)
    boldUpdated,      \* bold runs: value of updateSegmentsBold on the runs
    boldToggles,      \* bold runs: values of successive toggleBoldAtSelection calls
    splitContent,     \* overflow split: editContent
    splitParts        \* overflow split: keptContent and movedContent

segVars == <<text, pc, response, rawParagraphs, partIdx, fb, pushedInContext, result>>
appVars == <<inputText, cards, uiAlive, isProcessing, editingIndex, callText, comps, ops,
             activeCardIndexForUpload>>
fnVars == <<boldText, boldRange, boldRuns, boldRendered, boldIndexMap, boldUpdated,
            boldToggles, splitContent, splitParts>>
vars == <<segVars, appVars, fnVars>>

---------------------------------------------------------------------------
(* Bounds of the model *)

\* paragraphs-worth of blocks an enumerated input text is made of
MaxParas == 3

\* the card list is not split beyond this length
MaxCards == 4

\* user operations on the cards in one behaviour
MaxOps == 3

---------------------------------------------------------------------------
(* String helpers: what the JavaScript string methods used by the code do *)

SetMin(S) == CHOOSE m \in S : \A n \in S : m <= n

SetMax(S) == CHOOSE m \in S : \A n \in S : m >= n

\* s[i .. j] clipped to the string (1-based, inclusive)
Sub(s, i, j) == SubSeq(s, i, IF j > Len(s) THEN Len(s) ELSE j)

\* true iff `pat` occurs in s at position i
OccursAt(s, pat, i) == Sub(s, i, i + Len(pat) - 1) = pat

\* positions where `pat` occurs in s
Hits(s, pat) == {i \in 1..Len(s) : OccursAt(s, pat, i)}

\* String.prototype.split(sep) for a non-empty separator
RECURSIVE Split(_, _)
Split(s, sep) ==
    IF Hits(s, sep) = {} THEN <<s>>
    ELSE LET i == SetMin(Hits(s, sep))
         IN  <<Sub(s, 1, i - 1)>> \o Split(Sub(s, i + Len(sep), Len(s)), sep)

WhiteSpace == {" ", "\n", "\t", "\r"}

\* String.prototype.trim()
Trim(s) ==
    LET n == Len(s)
        IsWs(i) == Sub(s, i, i) \in WhiteSpace
    IN  IF \A i \in 1..n : IsWs(i) THEN ""
        ELSE LET first == CHOOSE i \in 1..n : ~IsWs(i) /\ \A j \in 1..(i - 1) : IsWs(j)
                 back == CHOOSE k \in 1..n :
                             ~IsWs(n + 1 - k) /\ \A j \in 1..(k - 1) : IsWs(n + 1 - j)
             IN  Sub(s, first, n + 1 - back)

\* s.replace(/c1|c2|.../g, '') for single characters
RECURSIVE RemoveChars(_, _)
RemoveChars(s, cs) ==
    LET hit == {i \in 1..Len(s) : Sub(s, i, i) \in cs}
    IN  IF hit = {} THEN s
        ELSE LET i == SetMin(hit)
             IN  Sub(s, 1, i - 1) \o RemoveChars(Sub(s, i + 1, Len(s)), cs)

\* s.match(/[...]/) is not null
MatchesAny(s, cs) == \E i \in 1..Len(s) : Sub(s, i, i) \in cs

\* decimal rendering of a number inside a template literal
RECURSIVE NumToStr(_)
NumToStr(n) ==
    IF n < 10 THEN Sub("0123456789", n + 1, n + 1)
    ELSE NumToStr(n \div 10) \o Sub("0123456789", (n % 10) + 1, (n % 10) + 1)

\* s repeated n times
RECURSIVE Repeat(_, _)
Repeat(s, n) ==
    IF n = 0 THEN ""
    ELSE IF n % 2 = 0 THEN LET h == Repeat(s, n \div 2) IN h \o h
    ELSE s \o Repeat(s, n - 1)

\* Array.prototype.join(sep)
RECURSIVE Join(_, _)
Join(xs, sep) ==
    IF Len(xs) = 0 THEN ""
    ELSE IF Len(xs) = 1 THEN xs[1]
    ELSE xs[1] \o sep \o Join(Tail(xs), sep)

Last(xs) == xs[Len(xs)]

---------------------------------------------------------------------------
(* The segmentation service and its response (geminiService.ts, try block) *)

\* Tokens of a response text that stand for the Markdown code fences the code
\* strips: three backticks followed by "json", and three backticks.
FenceJson == "<fence-json>"

Fence == "<fence>"

JsonGood == "{\"segments\":[{\"title\":\"A\",\"content\":\"\",\"layout\":\"cover\"},{\"title\":\"B\",\"content\":\"b\",\"layout\":\"standard\"},{\"title\":\"FIN\",\"content\":\"\",\"layout\":\"cover\"}]}"

JsonNoSegments == "{\"cards\":[]}"

JsonBadLayout == "{\"segments\":[{\"title\":\"A\",\"content\":\"b\",\"layout\":\"hero\"}]}"

JsonMissingField == "{\"segments\":[{\"title\":\"A\",\"layout\":\"standard\"}]}"

JsonNull == "null"

NotJson == "Here are your cards"

\* the value of a property that is absent from a parsed object
Undefined == "<undefined>"

Seg(t, c, l) == [title |-> t, content |-> c, layout |-> l]

\* JSON.parse on the payloads the model enumerates; any other text is a SyntaxError
JsonParse(s) ==
    CASE s = JsonGood ->
            [ok |-> TRUE, type |-> "object", hasSegments |-> TRUE,
             segments |-> <<Seg("A", "", "cover"), Seg("B", "b", "standard"),
                            Seg("FIN", "", "cover")>>]
      [] s = JsonNoSegments ->
            [ok |-> TRUE, type |-> "object", hasSegments |-> FALSE, segments |-> <<>>]
      [] s = JsonBadLayout ->
            [ok |-> TRUE, type |-> "object", hasSegments |-> TRUE,
             segments |-> <<Seg("A", "b", "hero")>>]
      [] s = JsonMissingField ->
            [ok |-> TRUE, type |-> "object", hasSegments |-> TRUE,
             segments |-> <<Seg("A", Undefined, "standard")>>]
      [] s = JsonNull ->
            [ok |-> TRUE, type |-> "null", hasSegments |-> FALSE, segments |-> <<>>]
      [] OTHER ->
            [ok |-> FALSE, type |-> "error", hasSegments |-> FALSE, segments |-> <<>>]

\* response.text.replace(/```json|```/g, "").trim(), or "" when response.text is falsy
RECURSIVE StripFences(_)
StripFences(tokens) ==
    IF Len(tokens) = 0 THEN ""
    ELSE IF Head(tokens) \in {FenceJson, Fence} THEN StripFences(Tail(tokens))
    ELSE Head(tokens) \o StripFences(Tail(tokens))

JsonStr(tokens) == Trim(StripFences(tokens))

\* how ai.models.generateContent settles: it rejects, or resolves to a response
\* whose text is the concatenation of the tokens (<<>>: text undefined or "")
Responses ==
    { [kind |-> "reject", text |-> <<>>] } \cup
    { [kind |-> "resolve", text |-> t] :
        t \in { <<>>,
                <<FenceJson, "\n", Fence>>,
                <<NotJson>>,
                <<JsonNull>>,
                <<JsonGood>>,
                <<FenceJson, "\n", JsonGood, "\n", Fence>>,
                <<JsonNoSegments>>,
                <<JsonBadLayout>>,
                <<JsonMissingField>> } }

\* the value a call of splitTextIntoCards resolves to
ListValue(segs) == [kind |-> "list", segments |-> segs]

UndefinedValue == [kind |-> "undefined", segments |-> <<>>]

Pending == [kind |-> "pending", segments |-> <<>>]

\* mutant of Primary: a JSON syntax error escapes the catch and nothing is returned
PrimaryParseUncaught(r) ==
    IF r.kind = "reject" THEN [threw |-> TRUE, value |-> Pending]
    ELSE LET jsonStr == JsonStr(r.text)
             parsedData == JsonParse(jsonStr)
         IN  IF jsonStr = "" THEN [threw |-> TRUE, value |-> Pending]
             ELSE IF ~parsedData.ok THEN [threw |-> FALSE, value |-> UndefinedValue]
             ELSE IF parsedData.type = "null" THEN [threw |-> TRUE, value |-> Pending]
             ELSE IF ~parsedData.hasSegments THEN [threw |-> FALSE, value |-> UndefinedValue]
             ELSE [threw |-> FALSE, value |-> ListValue(parsedData.segments)]

\* the try block after the await: throws (threw), or returns parsedData.segments
Primary(r) ==
    IF r.kind = "reject" THEN [threw |-> TRUE, value |-> Pending]
    ELSE LET jsonStr == JsonStr(r.text)
             parsedData == JsonParse(jsonStr)
         IN  IF jsonStr = "" THEN [threw |-> TRUE, value |-> Pending]
             ELSE IF ~parsedData.ok THEN [threw |-> TRUE, value |-> Pending]
             ELSE IF parsedData.type = "null" THEN [threw |-> TRUE, value |-> Pending]
             ELSE IF ~parsedData.hasSegments THEN [threw |-> FALSE, value |-> UndefinedValue]
             ELSE [threw |-> FALSE, value |-> ListValue(parsedData.segments)]

---------------------------------------------------------------------------
(* The fallback segmenter (geminiService.ts, catch block)                  *)

MAX_CHARS == 300

\* the length below which a paragraph without punctuation is taken for a header
HeaderMaxLen == 50

\* the ASCII members of /[.,;!?...]/
Punctuation == {".", ",", ";", "!", "?"}

TitleCard == Seg("Project Text", "", "cover")

\* mutant of EndCard: the closing marker is put in the content
EndCardInContent == Seg("", "The End", "cover")

EndCard == Seg("The End", "", "cover")

DefaultTitle == "Note Sequence"

\* text.split("\n\n").filter(t => t.trim().length > 0)
RawParagraphs(t) == SelectSeq(Split(t, "\n\n"), LAMBDA p : Len(Trim(p)) > 0)

\* part.length < 50 && !part.match(/[.,;!?]/)
IsHeader(part) == Len(part) < HeaderMaxLen /\ ~MatchesAny(part, Punctuation)

\* partCounter > 1 ? `${currentTitle} (${partCounter})` : currentTitle
SegmentTitle(currentTitle, partCounter) ==
    IF partCounter > 1 THEN currentTitle \o " (" \o NumToStr(partCounter) \o ")"
    ELSE currentTitle

\* part.replace(/#|\*/g, '').trim()
HeaderTitle(part) == Trim(RemoveChars(part, {"#", "*"}))

\* segments.push({title: ..., content: currentChunk, layout: "standard"})
PushChunk(st) ==
    Append(st.segments,
           Seg(SegmentTitle(st.currentTitle, st.partCounter), st.currentChunk, "standard"))

\* the state of the catch block before the loop
FallbackStart ==
    [segments |-> <<TitleCard>>, currentChunk |-> "",
     currentTitle |-> DefaultTitle, partCounter |-> 1]

\* mutant of HeaderPart: the early return is missing, the header starts the chunk
HeaderPartNoReturn(st, part) ==
    IF st.currentChunk # ""
    THEN [segments |-> PushChunk(st), currentChunk |-> part,
          currentTitle |-> HeaderTitle(part), partCounter |-> 1]
    ELSE [st EXCEPT !.currentTitle = HeaderTitle(part), !.currentChunk = part]

\* forEach body, header branch
HeaderPart(st, part) ==
    IF st.currentChunk # ""
    THEN [segments |-> PushChunk(st), currentChunk |-> "",
          currentTitle |-> HeaderTitle(part), partCounter |-> 1]
    ELSE [st EXCEPT !.currentTitle = HeaderTitle(part)]

\* mutant of OverflowPart: partCounter is not incremented
OverflowPartNoIncrement(st, part) ==
    [st EXCEPT !.segments = PushChunk(st), !.currentChunk = part]

\* forEach body, the paragraph does not fit the chunk
OverflowPart(st, part) ==
    [st EXCEPT !.segments = PushChunk(st),
               !.currentChunk = part,
               !.partCounter = st.partCounter + 1]

\* forEach body, the paragraph is appended to the chunk
AppendPart(st, part) ==
    [st EXCEPT !.currentChunk =
        st.currentChunk \o (IF st.currentChunk # "" THEN "\n\n" ELSE "") \o part]

\* forEach body
ForEachBody(st, part) ==
    IF IsHeader(part) THEN HeaderPart(st, part)
    ELSE IF Len(st.currentChunk) + Len(part) > MAX_CHARS THEN OverflowPart(st, part)
    ELSE AppendPart(st, part)

\* if (currentChunk) segments.push(...)
FlushChunk(st) ==
    IF st.currentChunk # "" THEN [st EXCEPT !.segments = PushChunk(st)] ELSE st

\* the catch block as a function of the text: loop, flush, end card
RECURSIVE ForEachFrom(_, _, _)
ForEachFrom(st, paras, i) ==
    IF i > Len(paras) THEN st ELSE ForEachFrom(ForEachBody(st, paras[i]), paras, i + 1)

Fallback(t) ==
    Append(FlushChunk(ForEachFrom(FallbackStart, RawParagraphs(t), 1)).segments, EndCard)

\* splitTextIntoCards as a function of the text and of how the service settled
SplitTextIntoCards(t, r) ==
    IF Primary(r).threw THEN ListValue(Fallback(t)) ELSE Primary(r).value

---------------------------------------------------------------------------
(* Input texts of the segmenter: up to MaxParas blocks joined by blank lines *)

LongPara == Repeat("a", 300) \o "."

HalfPara == Repeat("b", 149) \o "."

Blocks ==
    { " ",
      "## Header\nBody text.",
      " ## Intro* ",
      Repeat("c", 50),
      HalfPara,
      LongPara }

Texts ==
    { Join(bs, "\n\n") : bs \in UNION { [1..n -> Blocks] : n \in 1..MaxParas } }

---------------------------------------------------------------------------
(* Specification SpecSeg: one call of splitTextIntoCards                    *)

\* the application before any text is submitted
AppIdle ==
    /\ cards = <<>>
    /\ uiAlive = TRUE
    /\ isProcessing = FALSE
    /\ editingIndex = 0
    /\ callText = ""
    /\ comps = <<>>
    /\ ops = 0
    /\ activeCardIndexForUpload = 0

\* a value that was not computed yet, and a computed one
NotYet == [computed |-> FALSE]

Computed(v) == [computed |-> TRUE, value |-> v]

\* no pure function is being exercised
FnIdle ==
    /\ boldText = ""
    /\ boldRange = <<0, 0>>
    /\ boldRuns = NotYet
    /\ boldRendered = NotYet
    /\ boldIndexMap = NotYet
    /\ boldUpdated = NotYet
    /\ boldToggles = <<>>
    /\ splitContent = ""
    /\ splitParts = NotYet

\* the try block on the enumerated responses, tabulated
PrimaryOf == [r \in Responses |-> Primary(r)]

InitSeg ==
    /\ inputText = ""
    /\ AppIdle
    /\ FnIdle
    /\ text \in Texts
    /\ pc = "call"
    /\ response = [kind |-> "none", text |-> <<>>]
    /\ rawParagraphs = <<>>
    /\ partIdx = 0
    /\ fb = FallbackStart
    /\ pushedInContext = 0
    /\ result = Pending

\* await ai.models.generateContent(...) settles
ServiceSettles ==
    /\ pc = "call"
    /\ \E r \in Responses : response' = r
    /\ pc' = "try"
    /\ UNCHANGED <<text, rawParagraphs, partIdx, fb, pushedInContext, result, appVars, fnVars>>

\* lines 76-83 complete: return parsedData.segments
PrimaryReturns ==
    /\ pc = "try"
    /\ ~PrimaryOf[response].threw
    /\ result' = PrimaryOf[response].value
    /\ pc' = "done"
    /\ UNCHANGED <<text, response, rawParagraphs, partIdx, fb, pushedInContext, appVars, fnVars>>

\* the try block throws: the catch block starts
CatchEnter ==
    /\ pc = "try"
    /\ PrimaryOf[response].threw
    /\ fb' = FallbackStart
    /\ rawParagraphs' = RawParagraphs(text)
    /\ partIdx' = 1
    /\ pushedInContext' = 0
    /\ pc' = "forEach"
    /\ UNCHANGED <<text, response, result, appVars, fnVars>>

\* one iteration of rawParagraphs.forEach
ForEachPart ==
    /\ pc = "forEach"
    /\ partIdx <= Len(rawParagraphs)
    /\ fb' = ForEachBody(fb, rawParagraphs[partIdx])
    /\ pushedInContext' =
         IF IsHeader(rawParagraphs[partIdx]) THEN 0
         ELSE pushedInContext + (Len(fb'.segments) - Len(fb.segments))
    /\ partIdx' = partIdx + 1
    /\ UNCHANGED <<text, pc, response, rawParagraphs, result, appVars, fnVars>>

\* after the loop: the remaining chunk is pushed
FlushRemaining ==
    /\ pc = "forEach"
    /\ partIdx > Len(rawParagraphs)
    /\ fb' = FlushChunk(fb)
    /\ pushedInContext' = pushedInContext + (Len(fb'.segments) - Len(fb.segments))
    /\ pc' = "end"
    /\ UNCHANGED <<text, response, rawParagraphs, partIdx, result, appVars, fnVars>>

\* the end card is pushed and segments is returned
ReturnSegments ==
    /\ pc = "end"
    /\ fb' = [fb EXCEPT !.segments = Append(fb.segments, EndCard)]
    /\ result' = ListValue(fb'.segments)
    /\ pc' = "done"
    /\ UNCHANGED <<text, response, rawParagraphs, partIdx, pushedInContext, appVars, fnVars>>

NextSeg ==
    \/ ServiceSettles
    \/ PrimaryReturns
    \/ CatchEnter
    \/ ForEachPart
    \/ FlushRemaining
    \/ ReturnSegments

SpecSeg == InitSeg /\ [][NextSeg]_vars


---------------------------------------------------------------------------
(* Properties of splitTextIntoCards, checked under SpecSeg                  *)

\* the call has returned through the catch block
FallbackReturned == pc = "done" /\ PrimaryOf[response].threw

StandardIndexes(segs) == {i \in 1..Len(segs) : segs[i].layout = "standard"}

\* the three primary failures the contract lists: the service call rejects, the
\* response text is empty (after the fences are stripped), it is not JSON
ListedFailure(r) ==
    \/ r.kind = "reject"
    \/ r.kind = "resolve" /\ JsonStr(r.text) = ""
    \/ r.kind = "resolve" /\ JsonStr(r.text) # "" /\ ~JsonParse(JsonStr(r.text)).ok

\* C1: for each listed primary failure the call completes normally and returns
\* exactly the list the fallback produces for the same text.
C1_FailureReturnsFallback ==
    (pc = "done" /\ ListedFailure(response)) => result = ListValue(Fallback(text))

C1_Witness ==
    /\ pc = "done"
    /\ response = [kind |-> "resolve", text |-> <<NotJson>>]
    /\ result.kind = "list"
    /\ Len(result.segments) >= 4

\* the response parses as JSON but is not {segments: [{title, content, layout}]}
ShapeDeviates(r) ==
    /\ r.kind = "resolve"
    /\ JsonStr(r.text) # ""
    /\ JsonParse(JsonStr(r.text)).ok
    /\ LET v == JsonParse(JsonStr(r.text))
       IN  \/ v.type # "object"
           \/ ~v.hasSegments
           \/ \E i \in 1..Len(v.segments) :
                 \/ v.segments[i].title = Undefined
                 \/ v.segments[i].content = Undefined
                 \/ v.segments[i].layout \notin {"standard", "cover"}

\* C2: a response that parses but deviates from the expected shape is discarded
\* and the fallback's list is returned instead.
C2_ShapeDeviationReturnsFallback ==
    (pc = "done" /\ ShapeDeviates(response)) => result = ListValue(Fallback(text))

\* C3: the fallback returns at least two elements, the first and the last are
\* covers with empty content, every element between them is standard.
C3_FallbackShape ==
    FallbackReturned =>
        LET s == result.segments
        IN  /\ result.kind = "list"
            /\ Len(s) >= 2
            /\ s[1].layout = "cover" /\ s[1].content = ""
            /\ s[Len(s)].layout = "cover" /\ s[Len(s)].content = ""
            /\ \A i \in 2..(Len(s) - 1) : s[i].layout = "standard"

C3_Witness ==
    /\ FallbackReturned
    /\ Len(result.segments) >= 5
    /\ \E i \in 1..Len(rawParagraphs) : IsHeader(rawParagraphs[i])

\* C4: every standard segment the fallback returns has non-empty content.
C4_StandardNonEmpty ==
    FallbackReturned =>
        \A i \in StandardIndexes(result.segments) : result.segments[i].content # ""

\* C5: every standard segment the fallback returns is at most MAX_CHARS long,
\* separators included, unless its content is one single paragraph.
C5_StandardWithinBound ==
    FallbackReturned =>
        \A i \in StandardIndexes(result.segments) :
            \/ Len(result.segments[i].content) <= MAX_CHARS
            \/ Len(Split(result.segments[i].content, "\n\n")) = 1

\* C6: a non-blank text without a blank-line break gives exactly three elements:
\* the leading cover, one standard segment holding the whole text, the trailing cover.
C6_NoBreakGivesThree ==
    (FallbackReturned /\ Trim(text) # "" /\ Hits(text, "\n\n") = {}) =>
        LET s == result.segments
        IN  /\ Len(s) = 3
            /\ s[1].layout = "cover"
            /\ s[2].layout = "standard" /\ s[2].content = text
            /\ s[3].layout = "cover"

\* the loop is about to process a header paragraph
AtHeader ==
    /\ pc = "forEach"
    /\ partIdx <= Len(rawParagraphs)
    /\ IsHeader(rawParagraphs[partIdx])

\* C7 (i), (ii): a header paragraph flushes the non-empty buffer as a standard
\* segment titled with the previous title context, leaves the list alone when
\* the buffer is empty, and becomes the title context.
C7_HeaderStep ==
    AtHeader =>
        /\ fb.currentChunk # "" =>
              /\ Len(fb'.segments) = Len(fb.segments) + 1
              /\ SubSeq(fb'.segments, 1, Len(fb.segments)) = fb.segments
              /\ Last(fb'.segments).content = fb.currentChunk
              /\ Last(fb'.segments).layout = "standard"
              /\ Sub(Last(fb'.segments).title, 1, Len(fb.currentTitle)) = fb.currentTitle
        /\ fb.currentChunk = "" => fb'.segments = fb.segments
        /\ fb'.currentChunk = ""
        /\ fb'.currentTitle = Trim(RemoveChars(rawParagraphs[partIdx], {"#", "*"}))

\* C7 (iii): no paragraph of a returned segment's content is a header paragraph.
C7_NoHeaderInContent ==
    FallbackReturned =>
        \A i \in 1..Len(result.segments) :
            result.segments[i].content # "" =>
                \A k \in 1..Len(Split(result.segments[i].content, "\n\n")) :
                    ~IsHeader(Split(result.segments[i].content, "\n\n")[k])

\* C7: a header paragraph flushes the buffer under the previous title, becomes
\* the title context and never appears in the content of a returned segment.
C7_HeaderPromoted == [][C7_HeaderStep]_vars /\ []C7_NoHeaderInContent

C7_Witness ==
    /\ FallbackReturned
    /\ Len(rawParagraphs) = 3
    /\ ~IsHeader(rawParagraphs[1]) /\ IsHeader(rawParagraphs[2]) /\ ~IsHeader(rawParagraphs[3])
    /\ Len(result.segments) = 4
    /\ result.segments[2].title = DefaultTitle
    /\ result.segments[3].title = "Intro"

\* C8: "## Header\nBody text." gives a standard segment titled "Header" whose
\* content is "Body text.".
C8_HeaderLinePromoted ==
    (FallbackReturned /\ text = "## Header\nBody text.") =>
        \E i \in 1..Len(result.segments) :
            result.segments[i] = Seg("Header", "Body text.", "standard")

\* the title of the k-th consecutive segment of title context T
NthTitle(T, k) == IF k = 1 THEN T ELSE T \o " (" \o NumToStr(k) \o ")"

\* a step of the catch block that pushes a body segment
C9_PushStep ==
    (pc = "forEach" /\ Len(fb'.segments) = Len(fb.segments) + 1) =>
        Last(fb'.segments).title = NthTitle(fb.currentTitle, pushedInContext + 1)

\* a header paragraph restarts the counter
C9_HeaderRestarts == AtHeader => fb'.partCounter = 1

\* C9: the k-th consecutive segment of one title context T is titled T for
\* k = 1 and "T (k)" for k >= 2; a header paragraph restarts the counter at 1.
C9_PartTitles == [][C9_PushStep /\ C9_HeaderRestarts]_vars

C9_Witness ==
    /\ FallbackReturned
    /\ \E i \in 1..Len(result.segments) : result.segments[i].title = "Intro (2)"
    /\ \E i \in 1..Len(result.segments) : result.segments[i].title = "Note Sequence (2)"


---------------------------------------------------------------------------
(* The overflow split of a card (components/Card.tsx, handleSplitCard)      *)

Terminators == {".", "!", "?"}

\* editContent.match(/[^.!?]+[.!?]+/g): the matches, left to right (<<>> for null)
RECURSIVE MatchSentences(_)
MatchSentences(s) ==
    LET n == Len(s)
        starts == {i \in 1..n : Sub(s, i, i) \notin Terminators}
    IN  IF starts = {} THEN <<>>
        ELSE LET a == SetMin(starts)
                 terms == {i \in a..n : Sub(s, i, i) \in Terminators}
             IN  IF terms = {} THEN <<>>
                 ELSE LET b == SetMin(terms)
                          rest == {i \in b..n : Sub(s, i, i) \notin Terminators}
                          e == IF rest = {} THEN n ELSE SetMin(rest) - 1
                      IN  <<Sub(s, a, e)>> \o MatchSentences(Sub(s, e + 1, n))

\* mutant of Floor07: the cut is at the half
FloorHalf(n) == (5 * n) \div 10

\* Math.floor(n * 0.7); the two agree for every n below 90
Floor07(n) == (7 * n) \div 10

\* keptContent and movedContent as handleSplitCard computes them
OverflowSplit(editContent) ==
    LET paragraphs == Split(editContent, "\n\n")
        matched == MatchSentences(editContent)
        sentences == IF matched = <<>> THEN <<editContent>> ELSE matched
        splitIndex == Floor07(Len(sentences))
        mid == Floor07(Len(editContent))
    IN  IF Len(paragraphs) > 1
        THEN [kept |-> Join(SubSeq(paragraphs, 1, Len(paragraphs) - 1), "\n\n"),
              moved |-> Last(paragraphs)]
        ELSE IF Len(sentences) > 1
        THEN [kept |-> Trim(Join(SubSeq(sentences, 1, splitIndex), "")),
              moved |-> Trim(Join(SubSeq(sentences, splitIndex + 1, Len(sentences)), ""))]
        ELSE [kept |-> Sub(editContent, 1, mid) \o "...",
              moved |-> "..." \o Sub(editContent, mid + 1, Len(editContent))]

---------------------------------------------------------------------------
(* The application: App.tsx and the Card components it renders              *)

\* s.replace(/\\n/g, '\n'): a backslash followed by n becomes a line feed
RECURSIVE UnescapeNewlines(_)
UnescapeNewlines(s) ==
    IF Hits(s, "\\n") = {} THEN s
    ELSE LET i == SetMin(Hits(s, "\\n"))
         IN  Sub(s, 1, i - 1) \o "\n" \o UnescapeNewlines(Sub(s, i + 2, Len(s)))

\* content ? content.replace(/\\n/g, '\n') : ""
Sanitized(content) ==
    IF content = Undefined \/ content = "" THEN "" ELSE UnescapeNewlines(content)

\* the layout prop of a Card: layout = 'standard' when the segment has none
LayoutProp(layout) == IF layout = Undefined THEN "standard" ELSE layout

\* an empty slot of a sparse array, and the undefined element a spread makes of it
Hole == [hole |-> TRUE]

UndefinedElement == [undefinedElement |-> TRUE]

IsHole(c) == "hole" \in DOMAIN c

IsUndefinedElement(c) == "undefinedElement" \in DOMAIN c

\* [...prev]: the copy is dense, an empty slot becomes undefined
Spread(cs) == [k \in 1..Len(cs) |-> IF IsHole(cs[k]) THEN UndefinedElement ELSE cs[k]]

\* segment.image (undefined when the segment has none)
ImageOf(segment) == IF "image" \in DOMAIN segment THEN segment.image ELSE Undefined

\* { ...segment, image }
WithImage(segment, image) ==
    [title |-> segment.title, content |-> segment.content,
     layout |-> segment.layout, image |-> image]

\* a Card component that is not editing: its state follows its props
\* (useState initial values, then the prop-sync effect)
Synced(segment) ==
    [isEditing |-> FALSE,
     editTitle |-> segment.title,
     editContent |-> Sanitized(segment.content),
     editImage |-> ImageOf(segment),
     currentLayout |-> LayoutProp(segment.layout)]

\* a position of the list for which cards.map renders nothing
Unmounted == [isEditing |-> FALSE, unmounted |-> TRUE]

\* the components after a render of newCards: the component at a position is
\* kept while it is editing, follows its props otherwise, is mounted when the
\* position is new and unmounted when the position is gone or an empty slot
Rendered(newCards, cs) ==
    [k \in 1..Len(newCards) |->
        IF IsHole(newCards[k]) THEN Unmounted
        ELSE IF k <= Len(cs) /\ cs[k].isEditing THEN cs[k]
        ELSE Synced(newCards[k])]

\* mutant of HandleUpdateCard: the element at index is spliced out
HandleUpdateCardSplice(cs, index, updatedSegment) ==
    SubSeq(Spread(cs), 1, index - 1) \o SubSeq(Spread(cs), index + 1, Len(cs))

\* App.handleUpdateCard: newCards = [...prev]; newCards[index] = updatedSegment
HandleUpdateCard(cs, index, updatedSegment) ==
    [Spread(cs) EXCEPT ![index] = updatedSegment]

\* mutant of HandleSplitCard: the new card is pushed at the end of the list
HandleSplitCardPush(cs, index, contentToMove) ==
    Append(Spread(cs), Seg("", contentToMove, "standard"))

\* mutant of HandleSplitCard: the new card is inserted before the split card
HandleSplitCardBefore(cs, index, contentToMove) ==
    SubSeq(Spread(cs), 1, index - 1) \o <<Seg("", contentToMove, "standard")>>
        \o SubSeq(Spread(cs), index, Len(cs))

\* App.handleSplitCard: newCards.splice(index + 1, 0, {...})
HandleSplitCard(cs, index, contentToMove) ==
    SubSeq(Spread(cs), 1, index) \o <<Seg("", contentToMove, "standard")>>
        \o SubSeq(Spread(cs), index + 1, Len(cs))

\* the updater of reader.onload: newCards[idx] = {...newCards[idx], image};
\* an index past the end leaves empty slots before it
SetImage(cs, idx, image) ==
    LET prev == Spread(cs)
        old == IF idx <= Len(prev) /\ ~IsUndefinedElement(prev[idx])
               THEN prev[idx] ELSE Seg(Undefined, Undefined, Undefined)
        n == IF idx > Len(prev) THEN idx ELSE Len(prev)
    IN  [k \in 1..n |->
            IF k = idx THEN WithImage(old, image)
            ELSE IF k <= Len(prev) THEN prev[k] ELSE Hole]

\* the segment Card.handleSave, toggleLayout and handleSplitCard pass to onUpdate
Buffers(c, content, layout) ==
    IF c.editImage = Undefined THEN Seg(c.editTitle, content, layout)
    ELSE WithImage(Seg(c.editTitle, content, layout), c.editImage)

\* cards.map throws on an undefined element, which unmounts the component tree
RenderThrows(cs) == \E k \in 1..Len(cs) : IsUndefinedElement(cs[k])

\* positions at which a Card and its toolbar are rendered
Mounted == {i \in 1..Len(cards) : ~IsHole(cards[i])}

\* setCards(newCards) and the render that follows; cs are the components with
\* the state updates the handler made on them
Commit(newCards, cs) ==
    /\ cards' = newCards
    /\ uiAlive' = ~RenderThrows(newCards)
    /\ comps' = IF RenderThrows(newCards) THEN <<>> ELSE Rendered(newCards, cs)

\* texts submitted to the application
AppTexts ==
    { "## Header\nBody text.",
      "Intro\n\nAb. Cd. Ef.\n\nNext\n\nGh" }

\* how the service settles in the application's runs
AppResponses ==
    { [kind |-> "reject", text |-> <<>>],
      [kind |-> "resolve", text |-> <<JsonGood>>],
      [kind |-> "resolve", text |-> <<JsonNoSegments>>],
      [kind |-> "resolve", text |-> <<JsonBadLayout>>] }

\* what the user types into the title and content inputs
TypedTitles == {"New"}

TypedContents == {"X. Y."}

\* the data URL the file reader produces
Images == {"data:image/png;base64,AA"}

\* splitTextIntoCards on the application's texts and responses, tabulated
AppSegments == [t \in AppTexts, r \in AppResponses |-> SplitTextIntoCards(t, r)]

InitApp ==
    /\ inputText \in AppTexts
    /\ AppIdle
    /\ FnIdle
    /\ text = ""
    /\ pc = "idle"
    /\ response = [kind |-> "none", text |-> <<>>]
    /\ rawParagraphs = <<>>
    /\ partIdx = 0
    /\ fb = FallbackStart
    /\ pushedInContext = 0
    /\ result = Pending

\* App.handleProcess up to the await (the button is disabled while processing
\* and for a blank text)
HandleProcess ==
    /\ uiAlive
    /\ ~isProcessing
    /\ Trim(inputText) # ""
    /\ inputText # ""
    /\ isProcessing' = TRUE
    /\ editingIndex' = 0
    /\ callText' = inputText
    /\ UNCHANGED <<inputText, cards, uiAlive, comps, ops, activeCardIndexForUpload, segVars, fnVars>>

\* mutant of CompletedCards: the returned segments are added to the list
CompletedCardsAppended(prev, segments) == prev \o segments

\* setCards(segments): the returned list replaces the list
CompletedCards(prev, segments) == segments

\* App.handleProcess after the await: setCards(segments), then finally
\* setIsProcessing(false). A value of undefined makes the next render throw
\* on cards.length, which unmounts the component tree. The continuation runs
\* whatever became of the component tree in the meantime.
SegmentationCompletes ==
    /\ isProcessing
    /\ \E r \in AppResponses :
         LET segments == AppSegments[callText, r]
         IN  IF ~uiAlive
             THEN UNCHANGED <<cards, comps, uiAlive>>
             ELSE IF segments.kind = "list"
             THEN /\ cards' = CompletedCards(cards, segments.segments)
                  /\ comps' = Rendered(cards', comps)
                  /\ uiAlive' = TRUE
             ELSE /\ cards' = <<>>
                  /\ comps' = <<>>
                  /\ uiAlive' = FALSE
    /\ isProcessing' = FALSE
    /\ callText' = ""
    /\ UNCHANGED <<inputText, editingIndex, ops, activeCardIndexForUpload, segVars, fnVars>>

\* a user operation on the cards is possible
CanOperate == uiAlive /\ ops < MaxOps

\* Card.toggleLayout through the toolbar of card i
ToggleLayout ==
    /\ CanOperate
    /\ \E i \in Mounted :
         LET newLayout == IF comps[i].currentLayout = "standard" THEN "cover" ELSE "standard"
             toggled == [comps EXCEPT ![i].currentLayout = newLayout]
         IN  IF ~comps[i].isEditing
             THEN Commit(HandleUpdateCard(cards, i,
                             Buffers(comps[i], comps[i].editContent, newLayout)),
                         toggled)
             ELSE /\ comps' = toggled
                  /\ UNCHANGED <<cards, uiAlive>>
    /\ ops' = ops + 1
    /\ UNCHANGED <<inputText, isProcessing, editingIndex, callText,
                   activeCardIndexForUpload, segVars, fnVars>>

\* App.handleStartEdit(i): the card being edited, if another, is saved first
HandleStartEdit ==
    /\ CanOperate
    /\ \E i \in Mounted :
         /\ editingIndex # i
         /\ LET saves == editingIndex \in Mounted
                c == comps[editingIndex]
                saved == IF saves THEN [comps EXCEPT ![editingIndex].isEditing = FALSE]
                         ELSE comps
                started == [saved EXCEPT ![i].isEditing = TRUE]
            IN  IF saves
                THEN Commit(HandleUpdateCard(cards, editingIndex,
                                Buffers(c, c.editContent, c.currentLayout)),
                            started)
                ELSE /\ comps' = started
                     /\ UNCHANGED <<cards, uiAlive>>
         /\ editingIndex' = i
    /\ ops' = ops + 1
    /\ UNCHANGED <<inputText, isProcessing, callText, activeCardIndexForUpload, segVars, fnVars>>

\* App.handleSaveEdit(i) from the toolbar of the card in edit mode
HandleSaveEdit ==
    /\ CanOperate
    /\ editingIndex \in Mounted
    /\ LET i == editingIndex
           c == comps[i]
       IN  Commit(HandleUpdateCard(cards, i, Buffers(c, c.editContent, c.currentLayout)),
                  [comps EXCEPT ![i].isEditing = FALSE])
    /\ editingIndex' = 0
    /\ ops' = ops + 1
    /\ UNCHANGED <<inputText, isProcessing, callText, activeCardIndexForUpload, segVars, fnVars>>

\* App.handleCancelEdit(i): Card.handleCancel restores the buffers from the props
HandleCancelEdit ==
    /\ CanOperate
    /\ editingIndex \in Mounted
    /\ comps' = Rendered(cards, [comps EXCEPT ![editingIndex].isEditing = FALSE])
    /\ editingIndex' = 0
    /\ ops' = ops + 1
    /\ UNCHANGED <<inputText, cards, uiAlive, isProcessing, callText,
                   activeCardIndexForUpload, segVars, fnVars>>

\* the user types in the title input of a card in editing mode
TypeTitle ==
    /\ CanOperate
    /\ \E i \in Mounted, t \in TypedTitles :
         /\ comps[i].isEditing
         /\ comps[i].editTitle # t
         /\ comps' = [comps EXCEPT ![i].editTitle = t]
    /\ ops' = ops + 1
    /\ UNCHANGED <<inputText, cards, uiAlive, isProcessing, editingIndex, callText,
                   activeCardIndexForUpload, segVars, fnVars>>

\* the user types in the content textarea, which only the standard layout renders
TypeContent ==
    /\ CanOperate
    /\ \E i \in Mounted, t \in TypedContents :
         /\ comps[i].isEditing
         /\ comps[i].currentLayout # "cover"
         /\ comps[i].editContent # t
         /\ comps' = [comps EXCEPT ![i].editContent = t]
    /\ ops' = ops + 1
    /\ UNCHANGED <<inputText, cards, uiAlive, isProcessing, editingIndex, callText,
                   activeCardIndexForUpload, segVars, fnVars>>

\* Card.handleSplitCard on the overflow button, which a card shows when it is
\* not editing, has the standard layout and is measured as overflowing
SplitCard ==
    /\ CanOperate
    /\ Len(cards) < MaxCards
    /\ \E i \in Mounted :
         /\ ~comps[i].isEditing
         /\ comps[i].currentLayout # "cover"
         /\ LET c == comps[i]
                parts == OverflowSplit(c.editContent)
            IN  IF parts.kept # "" /\ parts.moved # ""
                THEN Commit(HandleSplitCard(
                                HandleUpdateCard(cards, i,
                                    Buffers(c, parts.kept, c.currentLayout)),
                                i, parts.moved),
                            comps)
                ELSE UNCHANGED <<cards, uiAlive, comps>>
    /\ ops' = ops + 1
    /\ UNCHANGED <<inputText, isProcessing, editingIndex, callText,
                   activeCardIndexForUpload, segVars, fnVars>>

\* App.triggerImageUpload(i) from the view-mode toolbar and handleFileChange
\* with a file chosen: the read is started (one read is in flight at a time)
TriggerImageUpload ==
    /\ CanOperate
    /\ activeCardIndexForUpload = 0
    /\ \E i \in Mounted :
         /\ editingIndex # i
         /\ activeCardIndexForUpload' = i
    /\ ops' = ops + 1
    /\ UNCHANGED <<inputText, cards, uiAlive, isProcessing, editingIndex, callText,
                   comps, segVars, fnVars>>

\* reader.onload of handleFileChange: the image is stored at the index the
\* upload was triggered for, whatever the list is by now
ReaderOnload ==
    /\ activeCardIndexForUpload # 0
    /\ \E image \in Images :
         IF uiAlive
         THEN Commit(SetImage(cards, activeCardIndexForUpload, image), comps)
         ELSE UNCHANGED <<cards, uiAlive, comps>>
    /\ activeCardIndexForUpload' = 0
    /\ UNCHANGED <<inputText, isProcessing, editingIndex, callText, ops, segVars, fnVars>>

NextApp ==
    \/ HandleProcess
    \/ SegmentationCompletes
    \/ ToggleLayout
    \/ HandleStartEdit
    \/ HandleSaveEdit
    \/ HandleCancelEdit
    \/ TypeTitle
    \/ TypeContent
    \/ SplitCard
    \/ TriggerImageUpload
    \/ ReaderOnload

SpecApp == InitApp /\ [][NextApp]_vars


---------------------------------------------------------------------------
(* Properties of the card list, checked under SpecApp                       *)

\* the shape of a segment sequence: covers with empty content at both ends,
\* standard elements between them
ListShape(cs) ==
    /\ Len(cs) >= 2
    /\ \A i \in 1..Len(cs) : "layout" \in DOMAIN cs[i]
    /\ cs[1].layout = "cover" /\ cs[1].content = ""
    /\ cs[Len(cs)].layout = "cover" /\ cs[Len(cs)].content = ""
    /\ \A i \in 2..(Len(cs) - 1) : cs[i].layout = "standard"

\* a step of a handler that works on the existing list: an edit, a layout
\* toggle or an overflow split (a segmentation run changes isProcessing)
CardMutation ==
    /\ isProcessing' = isProcessing
    /\ activeCardIndexForUpload' = activeCardIndexForUpload
    /\ uiAlive
    /\ cards' # cards

\* a step of the overflow split that inserts the new card
SplitInserted ==
    /\ isProcessing' = isProcessing
    /\ activeCardIndexForUpload' = activeCardIndexForUpload
    /\ Len(cards') = Len(cards) + 1

\* C10 as stated: every card mutation preserves the shape of the list.
C10_MutationsPreserveShape == [][(ListShape(cards) /\ CardMutation) => ListShape(cards')]_vars

\* C10 amended: an overflow split preserves the shape of the list.
C10_SplitPreservesShape == [][(ListShape(cards) /\ SplitInserted) => ListShape(cards')]_vars

C10_Witness ==
    /\ ListShape(cards)
    /\ Len(cards) = 4
    /\ cards[2] = Seg("Note Sequence", "## Header\nBody...", "standard")
    /\ cards[3] = Seg("", "... text.", "standard")


\* a step other than the completion of a segmentation run
NotReplacement == ~(isProcessing /\ ~isProcessing')

\* an empty slot and the undefined element a copy makes of it are the same slot
SameCard(a, b) ==
    \/ a = b
    \/ (IsHole(a) \/ IsUndefinedElement(a)) /\ (IsHole(b) \/ IsUndefinedElement(b))

\* the card at position k is still in the list, at k or moved one place down
Survives(k) ==
    \/ k <= Len(cards') /\ SameCard(cards'[k], cards[k])
    \/ k + 1 <= Len(cards') /\ SameCard(cards'[k + 1], cards[k])

\* C11: a step of an edit-save, cancel, layout toggle, image upload or split
\* never shortens the card list and removes no card: every card but the one
\* the handler rewrites is still in the list; only the completion of a
\* segmentation run replaces the list.
C11_NoCardRemoved ==
    [][NotReplacement =>
          /\ Len(cards') >= Len(cards)
          /\ Cardinality({k \in 1..Len(cards) : ~Survives(k)}) <= 1]_vars

C11_Witness ==
    /\ Len(cards) = 4
    /\ cards[1] = WithImage(TitleCard, "data:image/png;base64,AA")
    /\ cards[3] = Seg("", "... text.", "standard")
    /\ ops = 2


---------------------------------------------------------------------------
(* Bold runs: the pure functions of Card.tsx on `**` markers. Offsets are  *)
(* the 0-based offsets of the code; position i of the code is character    *)
(* i + 1 of the string.                                                     *)

Marker == "**"

\* text.slice(i, i + 2) === "**"
MarkerAt(txt, i) == Sub(txt, i + 1, i + 2) = Marker

\* mutant of PushRun: a run is never merged into the previous one
PushRunNoMerge(segments, buffer, bold) ==
    IF buffer = "" THEN segments
    ELSE Append(segments, [text |-> buffer, bold |-> bold])

\* pushBuffer of buildSegments and push of updateSegmentsBold
PushRun(segments, buffer, bold) ==
    IF buffer = "" THEN segments
    ELSE IF Len(segments) > 0 /\ Last(segments).bold = bold
    THEN [segments EXCEPT ![Len(segments)].text = @ \o buffer]
    ELSE Append(segments, [text |-> buffer, bold |-> bold])

RECURSIVE BuildSegmentsLoop(_, _, _, _, _)
BuildSegmentsLoop(txt, i, bold, buffer, segments) ==
    IF i >= Len(txt) THEN PushRun(segments, buffer, bold)
    ELSE IF MarkerAt(txt, i)
    THEN BuildSegmentsLoop(txt, i + 2, ~bold, "", PushRun(segments, buffer, bold))
    ELSE BuildSegmentsLoop(txt, i + 1, bold, buffer \o Sub(txt, i + 1, i + 1), segments)

\* buildSegments(text)
BuildSegments(txt) == BuildSegmentsLoop(txt, 0, FALSE, "", <<>>)

\* an entry of new Array(n) that was never assigned
Unset == -1

\* mutant of BuildIndexMapLoop: the entry inside a marker is not assigned
RECURSIVE BuildIndexMapLoopSkipInside(_, _, _, _)
BuildIndexMapLoopSkipInside(txt, i, plainIndex, map) ==
    IF i >= Len(txt) THEN map
    ELSE IF MarkerAt(txt, i)
    THEN BuildIndexMapLoopSkipInside(txt, i + 2, plainIndex,
             [map EXCEPT ![i + 1] = plainIndex, ![i + 3] = plainIndex])
    ELSE BuildIndexMapLoopSkipInside(txt, i + 1, plainIndex + 1,
             [map EXCEPT ![i + 1] = plainIndex, ![i + 2] = plainIndex + 1])

RECURSIVE BuildIndexMapLoop(_, _, _, _)
BuildIndexMapLoop(txt, i, plainIndex, map) ==
    IF i >= Len(txt) THEN map
    ELSE IF MarkerAt(txt, i)
    THEN BuildIndexMapLoop(txt, i + 2, plainIndex,
             [map EXCEPT ![i + 1] = plainIndex, ![i + 2] = plainIndex,
                         ![i + 3] = plainIndex])
    ELSE BuildIndexMapLoop(txt, i + 1, plainIndex + 1,
             [map EXCEPT ![i + 1] = plainIndex, ![i + 2] = plainIndex + 1])

\* buildIndexMap(text): entry i of the array is element i + 1 of the sequence
BuildIndexMap(txt) ==
    BuildIndexMapLoop(txt, 0, 0,
        [k \in 1..(Len(txt) + 1) |-> IF k = 1 THEN 0 ELSE Unset])

\* the scan with the markers counted as characters
RECURSIVE PlainIndexLoopCountMarkers(_, _, _, _)
PlainIndexLoopCountMarkers(txt, plainIndex, i, count) ==
    IF i >= Len(txt) THEN Len(txt)
    ELSE IF count = plainIndex THEN i
    ELSE PlainIndexLoopCountMarkers(txt, plainIndex, i + 1, count + 1)

RECURSIVE PlainIndexLoop(_, _, _, _)
PlainIndexLoop(txt, plainIndex, i, count) ==
    IF i >= Len(txt) THEN Len(txt)
    ELSE IF MarkerAt(txt, i) THEN PlainIndexLoop(txt, plainIndex, i + 2, count)
    ELSE IF count = plainIndex THEN i
    ELSE PlainIndexLoop(txt, plainIndex, i + 1, count + 1)

\* plainIndexToTextIndex(text, plainIndex)
PlainIndexToTextIndex(txt, plainIndex) == PlainIndexLoop(txt, plainIndex, 0, 0)

Min2(a, b) == IF a < b THEN a ELSE b

Max2(a, b) == IF a > b THEN a ELSE b

\* s.slice(a, b) for 0 <= a, 0 <= b
Slice(s, a, b) == Sub(s, a + 1, b)

RECURSIVE UpdateLoop(_, _, _, _, _, _, _)
UpdateLoop(segments, k, offset, start, end, boldValue, next) ==
    IF k > Len(segments) THEN next
    ELSE LET segment == segments[k]
             segStart == offset
             segEnd == offset + Len(segment.text)
             overlapStart == Max2(start, segStart)
             overlapEnd == Min2(end, segEnd)
             head == IF segStart < overlapStart
                     THEN PushRun(next, Slice(segment.text, 0, overlapStart - segStart),
                                  segment.bold)
                     ELSE next
             mid == PushRun(head, Slice(segment.text, overlapStart - segStart,
                                        overlapEnd - segStart), boldValue)
             tail == IF overlapEnd < segEnd
                     THEN PushRun(mid, Slice(segment.text, overlapEnd - segStart,
                                             Len(segment.text)), segment.bold)
                     ELSE mid
         IN  IF segEnd <= start \/ segStart >= end
             THEN UpdateLoop(segments, k + 1, segEnd, start, end, boldValue,
                             PushRun(next, segment.text, segment.bold))
             ELSE UpdateLoop(segments, k + 1, segEnd, start, end, boldValue, tail)

\* updateSegmentsBold(segments, start, end, boldValue)
UpdateSegmentsBold(segments, start, end, boldValue) ==
    UpdateLoop(segments, 1, 0, start, end, boldValue, <<>>)

\* mutant of RenderSegments: a bold run is closed with a single marker only
\* when another run follows
RECURSIVE RenderSegmentsOpenEnded(_)
RenderSegmentsOpenEnded(segments) ==
    IF Len(segments) = 0 THEN ""
    ELSE LET segment == Head(segments)
         IN  (IF segment.text = "" THEN ""
              ELSE IF segment.bold
              THEN Marker \o segment.text \o (IF Len(segments) > 1 THEN Marker ELSE "")
              ELSE segment.text) \o RenderSegmentsOpenEnded(Tail(segments))

\* renderSegments(segments)
RECURSIVE RenderSegments(_)
RenderSegments(segments) ==
    IF Len(segments) = 0 THEN ""
    ELSE LET segment == Head(segments)
         IN  (IF segment.text = "" THEN ""
              ELSE IF segment.bold THEN Marker \o segment.text \o Marker
              ELSE segment.text) \o RenderSegments(Tail(segments))

\* mutant of HasUnbold: a non-bold run is always reported
HasUnboldAlways(segments, k, offset, plainStart, plainEnd) == TRUE

\* the loop of toggleBoldAtSelection that looks for a non-bold run in the range
RECURSIVE HasUnbold(_, _, _, _, _)
HasUnbold(segments, k, offset, plainStart, plainEnd) ==
    IF k > Len(segments) THEN FALSE
    ELSE LET segStart == offset
             segEnd == offset + Len(segments[k].text)
         IN  IF segEnd <= plainStart \/ segStart >= plainEnd
             THEN HasUnbold(segments, k + 1, segEnd, plainStart, plainEnd)
             ELSE IF ~segments[k].bold THEN TRUE
             ELSE HasUnbold(segments, k + 1, segEnd, plainStart, plainEnd)

\* mutant of ToggleBoldAtSelection: the cursor case inserts three asterisks
ToggleBoldAtSelectionOddInsert(txt, start, end) ==
    IF start = end
    THEN LET before == Slice(txt, 0, start)
             after == Slice(txt, end, Len(txt))
         IN  IF /\ Len(before) >= 2
                /\ Sub(before, Len(before) - 1, Len(before)) = Marker
                /\ Sub(after, 1, 2) = Marker
             THEN [newText |-> Sub(before, 1, Len(before) - 2) \o Sub(after, 3, Len(after)),
                   newStart |-> start - 2, newEnd |-> start - 2]
             ELSE [newText |-> before \o "***" \o after,
                   newStart |-> start + 2, newEnd |-> start + 2]
    ELSE LET indexMap == BuildIndexMap(txt)
             plainStart == IF indexMap[start + 1] = Unset THEN 0 ELSE indexMap[start + 1]
             plainEnd == IF indexMap[end + 1] = Unset THEN plainStart ELSE indexMap[end + 1]
             segments == BuildSegments(txt)
             shouldBold == HasUnbold(segments, 1, 0, plainStart, plainEnd)
             nextSegments == UpdateSegmentsBold(segments, plainStart, plainEnd, shouldBold)
             newText == RenderSegments(nextSegments)
         IN  [newText |-> newText,
              newStart |-> PlainIndexToTextIndex(newText, plainStart),
              newEnd |-> PlainIndexToTextIndex(newText, plainEnd)]

\* toggleBoldAtSelection(text, start, end)
ToggleBoldAtSelection(txt, start, end) ==
    IF start = end
    THEN LET before == Slice(txt, 0, start)
             after == Slice(txt, end, Len(txt))
         IN  IF /\ Len(before) >= 2
                /\ Sub(before, Len(before) - 1, Len(before)) = Marker
                /\ Sub(after, 1, 2) = Marker
             THEN [newText |-> Sub(before, 1, Len(before) - 2) \o Sub(after, 3, Len(after)),
                   newStart |-> start - 2, newEnd |-> start - 2]
             ELSE [newText |-> before \o "****" \o after,
                   newStart |-> start + 2, newEnd |-> start + 2]
    ELSE LET indexMap == BuildIndexMap(txt)
             plainStart == IF indexMap[start + 1] = Unset THEN 0 ELSE indexMap[start + 1]
             plainEnd == IF indexMap[end + 1] = Unset THEN plainStart ELSE indexMap[end + 1]
             segments == BuildSegments(txt)
             shouldBold == HasUnbold(segments, 1, 0, plainStart, plainEnd)
             nextSegments == UpdateSegmentsBold(segments, plainStart, plainEnd, shouldBold)
             newText == RenderSegments(nextSegments)
         IN  [newText |-> newText,
              newStart |-> PlainIndexToTextIndex(newText, plainStart),
              newEnd |-> PlainIndexToTextIndex(newText, plainEnd)]


\* the characters of the raw strings and their largest length
RawChars == {"a", "*"}

MaxRaw == 7

MaxToggles == 2

RECURSIVE StringsOfLen(_)
StringsOfLen(n) ==
    IF n = 0 THEN {""}
    ELSE {s \o c : s \in StringsOfLen(n - 1), c \in RawChars}

Raws == UNION {StringsOfLen(n) : n \in 0..MaxRaw}

\* the application and the segmenter are idle while a pure function is exercised
SystemIdle ==
    /\ inputText = ""
    /\ AppIdle
    /\ text = ""
    /\ pc = "idle"
    /\ response = [kind |-> "none", text |-> <<>>]
    /\ rawParagraphs = <<>>
    /\ partIdx = 0
    /\ fb = FallbackStart
    /\ pushedInContext = 0
    /\ result = Pending

InitBold ==
    /\ SystemIdle
    /\ boldText \in Raws
    /\ boldRange \in {r \in (0..MaxRaw) \X (0..MaxRaw) : r[1] <= r[2] /\ r[2] <= Len(boldText)}
    /\ boldRuns = NotYet
    /\ boldRendered = NotYet
    /\ boldIndexMap = NotYet
    /\ boldUpdated = NotYet
    /\ boldToggles = <<>>
    /\ splitContent = ""
    /\ splitParts = NotYet

\* segments = buildSegments(text); the functions are exercised one after the
\* other on the input, or the toggle is exercised alone
BuildSegmentsCall ==
    /\ boldToggles = <<>>
    /\ ~boldRuns.computed
    /\ boldRuns' = Computed(BuildSegments(boldText))
    /\ UNCHANGED <<boldText, boldRange, boldRendered, boldIndexMap, boldUpdated,
                   boldToggles, splitContent, splitParts, segVars, appVars>>

\* renderSegments(segments)
RenderSegmentsCall ==
    /\ boldRuns.computed
    /\ ~boldRendered.computed
    /\ boldRendered' = Computed(RenderSegments(boldRuns.value))
    /\ UNCHANGED <<boldText, boldRange, boldRuns, boldIndexMap, boldUpdated,
                   boldToggles, splitContent, splitParts, segVars, appVars>>

\* indexMap = buildIndexMap(text)
BuildIndexMapCall ==
    /\ boldRendered.computed
    /\ ~boldIndexMap.computed
    /\ boldIndexMap' = Computed(BuildIndexMap(boldText))
    /\ UNCHANGED <<boldText, boldRange, boldRuns, boldRendered, boldUpdated,
                   boldToggles, splitContent, splitParts, segVars, appVars>>

\* updateSegmentsBold(segments, plainStart, plainEnd, boldValue) on the
\* logical range of the selection
UpdateSegmentsBoldCall ==
    /\ boldRuns.computed
    /\ boldIndexMap.computed
    /\ ~boldUpdated.computed
    /\ \E boldValue \in BOOLEAN :
         boldUpdated' =
             [computed |-> TRUE,
              boldValue |-> boldValue,
              value |-> UpdateSegmentsBold(boldRuns.value,
                            boldIndexMap.value[boldRange[1] + 1],
                            boldIndexMap.value[boldRange[2] + 1], boldValue)]
    /\ UNCHANGED <<boldText, boldRange, boldRuns, boldRendered, boldIndexMap,
                   boldToggles, splitContent, splitParts, segVars, appVars>>

\* the text and selection the next toggle is applied to: the input, or what
\* the last toggle returned
Selection ==
    IF boldToggles = <<>>
    THEN [newText |-> boldText, newStart |-> boldRange[1], newEnd |-> boldRange[2]]
    ELSE Last(boldToggles)

\* toggleBoldAtSelection on the current text and selection
ToggleBoldCall ==
    /\ ~boldRuns.computed
    /\ Len(boldToggles) < MaxToggles
    /\ boldToggles' = Append(boldToggles,
                          ToggleBoldAtSelection(Selection.newText, Selection.newStart,
                                                Selection.newEnd))
    /\ UNCHANGED <<boldText, boldRange, boldRuns, boldRendered, boldIndexMap,
                   boldUpdated, splitContent, splitParts, segVars, appVars>>

NextBold ==
    \/ BuildSegmentsCall
    \/ RenderSegmentsCall
    \/ BuildIndexMapCall
    \/ UpdateSegmentsBoldCall
    \/ ToggleBoldCall

SpecBold == InitBold /\ [][NextBold]_vars

\* the `**` markers of a text as buildSegments reads them, by offset
RECURSIVE MarkerOffsets(_, _)
MarkerOffsets(txt, i) ==
    IF i >= Len(txt) THEN <<>>
    ELSE IF MarkerAt(txt, i) THEN <<i>> \o MarkerOffsets(txt, i + 2)
    ELSE MarkerOffsets(txt, i + 1)

EvenMarkers(txt) == Len(MarkerOffsets(txt, 0)) % 2 = 0

\* two markers with nothing between them
AdjacentMarkers(txt) ==
    LET m == MarkerOffsets(txt, 0)
    IN  \E k \in 1..(Len(m) - 1) : m[k + 1] = m[k] + 2

\* C12 as stated: for every raw string with an even number of markers,
\* rendering the parsed runs gives the raw string back.
C12_RoundTrip ==
    (boldRendered.computed /\ EvenMarkers(boldText)) => boldRendered.value = boldText

\* C12 amended: for every raw string with an even number of markers of which
\* no two are adjacent, rendering the parsed runs gives the raw string back.
C12_RoundTripNoAdjacent ==
    (boldRendered.computed /\ EvenMarkers(boldText) /\ ~AdjacentMarkers(boldText))
        => boldRendered.value = boldText

C12_Witness ==
    /\ boldText = "**a**"
    /\ boldRendered.computed
    /\ boldRendered.value = "**a**"


\* C13 as stated: toggling twice, the second time on the selection the first
\* toggle returned, restores the original text.
C13_ToggleTwiceRestores ==
    Len(boldToggles) = 2 => boldToggles[2].newText = boldText


\* the bold value of every logical character of a run list, in order
RECURSIVE BoldFlags(_)
BoldFlags(segments) ==
    IF Len(segments) = 0 THEN <<>>
    ELSE [k \in 1..Len(Head(segments).text) |-> Head(segments).bold]
             \o BoldFlags(Tail(segments))

\* the logical text of a run list
RECURSIVE PlainText(_)
PlainText(segments) ==
    IF Len(segments) = 0 THEN "" ELSE Head(segments).text \o PlainText(Tail(segments))

\* the text is the rendering of its own runs and has no asterisk outside markers
WellFormed(txt) ==
    /\ RenderSegments(BuildSegments(txt)) = txt
    /\ ~MatchesAny(PlainText(BuildSegments(txt)), {"*"})

\* the logical range [plainStart, plainEnd) of the storage range [start, end]
PlainStart(txt, start) == BuildIndexMap(txt)[start + 1]

PlainEnd(txt, end) == BuildIndexMap(txt)[end + 1]

\* the bold values of the logical characters of the selection
SelectedFlags(txt, start, end) ==
    LET flags == BoldFlags(BuildSegments(txt))
    IN  {flags[p + 1] : p \in PlainStart(txt, start)..(PlainEnd(txt, end) - 1)}

\* the selection holds at least one logical character, and its characters are
\* all bold or all non-bold
Uniform(txt, start, end) == Cardinality(SelectedFlags(txt, start, end)) = 1

\* C13 amended: on a well-formed text, toggling twice restores the text when
\* the selection is zero-width, or holds at least one logical character and
\* its characters are all bold or all non-bold.
C13_ToggleTwiceRestoresUniform ==
    (/\ Len(boldToggles) >= 2
     /\ WellFormed(boldText)
     /\ \/ boldRange[1] = boldRange[2]
        \/ Uniform(boldText, boldRange[1], boldRange[2]))
        => boldToggles[2].newText = boldText

C13_Witness ==
    /\ boldText = "**a**a"
    /\ boldRange = <<5, 6>>
    /\ Len(boldToggles) = 2
    /\ boldToggles[1].newText = "**aa**"
    /\ boldToggles[2].newText = "**a**a"

\* toggling twice on a selection with bold and non-bold characters
C13_MixedNotRestored ==
    /\ boldText = "a**a**"
    /\ boldRange = <<0, 6>>
    /\ Len(boldToggles) = 2
    /\ boldToggles[2].newText = "aa"


\* C14 as stated: bolding a fully selected text without asterisks returns the
\* text wrapped in markers with the selection [2, n + 2] inside them.
C14_BoldAllSelectsInside ==
    (/\ Len(boldToggles) >= 1
     /\ Len(boldText) >= 1
     /\ ~MatchesAny(boldText, {"*"})
     /\ boldRange = <<0, Len(boldText)>>)
        => boldToggles[1] = [newText |-> Marker \o boldText \o Marker,
                             newStart |-> 2,
                             newEnd |-> Len(boldText) + 2]


\* the cursor at offset c stands between a closing and an opening marker
BetweenMarkers(txt, c) == c >= 2 /\ Sub(txt, c - 1, c) = Marker /\ Sub(txt, c + 1, c + 2) = Marker

\* what the zero-width branch returns, and the logical offset of the cursor
CursorOutcome(txt, c, out) ==
    IF BetweenMarkers(txt, c)
    THEN /\ out = [newText |-> Sub(txt, 1, c - 2) \o Sub(txt, c + 3, Len(txt)),
                   newStart |-> c - 2, newEnd |-> c - 2]
         /\ BuildIndexMap(out.newText)[out.newStart + 1] = BuildIndexMap(txt)[c + 1]
    ELSE out = [newText |-> Sub(txt, 1, c) \o "****" \o Sub(txt, c + 1, Len(txt)),
                newStart |-> c + 2, newEnd |-> c + 2]

\* C15 as stated: for a zero-width selection the toggle removes the two
\* markers around the cursor, which keeps its logical offset, or else inserts
\* an empty marker pair around the cursor.
C15_CursorToggle ==
    (Len(boldToggles) >= 1 /\ boldRange[1] = boldRange[2])
        => CursorOutcome(boldText, boldRange[1], boldToggles[1])


\* the logical offsets of the selection
SelectedOffsets(txt, start, end) == PlainStart(txt, start)..(PlainEnd(txt, end) - 1)

\* the logical character at offset p is bold in the runs of the text
BoldAt(txt, p) ==
    LET flags == BoldFlags(BuildSegments(txt))
    IN  p + 1 <= Len(flags) /\ flags[p + 1]

\* the logical character at offset p is non-bold in the runs of the text
PlainAt(txt, p) ==
    LET flags == BoldFlags(BuildSegments(txt))
    IN  p + 1 <= Len(flags) /\ ~flags[p + 1]

\* C16 as stated: after a toggle on a non-empty selection every selected
\* character is bold if one of them was non-bold before, and every selected
\* character is non-bold if all of them were bold before.
C16_MixedResolvesToBold ==
    (Len(boldToggles) >= 1 /\ boldRange[1] < boldRange[2])
        => LET sel == SelectedOffsets(boldText, boldRange[1], boldRange[2])
               new == boldToggles[1].newText
           IN  /\ (\E p \in sel : PlainAt(boldText, p)) => \A p \in sel : BoldAt(new, p)
               /\ (\A p \in sel : BoldAt(boldText, p)) => \A p \in sel : PlainAt(new, p)

\* C16 on texts with no asterisk outside markers
C16_OnWellFormed == WellFormed(boldText) => C16_MixedResolvesToBold


\* the offsets of the characters that belong to a marker
MarkerChars(txt) ==
    LET m == MarkerOffsets(txt, 0)
    IN  UNION {{m[k], m[k] + 1} : k \in 1..Len(m)}

\* the number of non-marker characters before offset i
PlainBefore(txt, i) == Cardinality({j \in 0..(i - 1) : j \notin MarkerChars(txt)})

\* C17: buildIndexMap is defined at every offset 0..len; entry i is the number
\* of non-marker characters before offset i, so an offset on or inside a
\* marker has the logical offset just before the marker; entry 0 is 0, the
\* last entry is the length of the logical text, and the entries never
\* decrease and grow by at most 1.
C17_IndexMap ==
    boldIndexMap.computed =>
        LET map == boldIndexMap.value
            n == Len(boldText)
        IN  /\ Len(map) = n + 1
            /\ \A i \in 0..n : map[i + 1] # Unset /\ map[i + 1] = PlainBefore(boldText, i)
            /\ \A i \in MarkerChars(boldText) :
                   map[i + 1] = PlainBefore(boldText, i) /\ map[i + 1] = map[i + 2]
            /\ map[1] = 0
            /\ map[n + 1] = Len(PlainText(BuildSegments(boldText)))
            /\ \A i \in 1..n : map[i + 1] - map[i] \in {0, 1}

C17_Witness ==
    /\ boldText = "a**a**a"
    /\ boldIndexMap.computed
    /\ boldIndexMap.value = <<0, 1, 1, 1, 2, 2, 2, 3>>


\* no run is empty and no two adjacent runs have the same bold value
Coalesced(segments) ==
    /\ \A k \in 1..Len(segments) : segments[k].text # ""
    /\ \A k \in 1..(Len(segments) - 1) : segments[k].bold # segments[k + 1].bold

\* the text after the last marker
AfterLastMarker(txt) ==
    LET m == MarkerOffsets(txt, 0)
    IN  IF m = <<>> THEN txt ELSE Sub(txt, Last(m) + 3, Len(txt))

\* s ends with t
EndsWith(s, t) == Len(t) <= Len(s) /\ Sub(s, Len(s) - Len(t) + 1, Len(s)) = t

\* C18: the runs buildSegments returns and the runs updateSegmentsBold returns
\* have no empty run and no two adjacent runs with the same bold value; with
\* an odd number of markers the text after the last marker lies in one run,
\* the last, which is bold.
C18_RunsCoalesced ==
    /\ boldRuns.computed => Coalesced(boldRuns.value)
    /\ boldUpdated.computed => Coalesced(boldUpdated.value)
    /\ (boldRuns.computed /\ ~EvenMarkers(boldText) /\ AfterLastMarker(boldText) # "")
           => /\ Last(boldRuns.value).bold
              /\ EndsWith(Last(boldRuns.value).text, AfterLastMarker(boldText))

C18_Witness ==
    /\ boldText = "a**a**a"
    /\ boldRange = <<0, 4>>
    /\ boldUpdated.computed
    /\ boldUpdated.boldValue
    /\ boldUpdated.value = <<[text |-> "aa", bold |-> TRUE], [text |-> "a", bold |-> FALSE]>>


---------------------------------------------------------------------------
(* The overflow split on enumerated contents                                *)

\* the pieces the contents are made of, and their largest number
SplitPieces == {"a", "bcd", ".", "b? ", " ", "\n\n"}

MaxPieces == 5

RECURSIVE ContentsOf(_)
ContentsOf(n) ==
    IF n = 0 THEN {""}
    ELSE {s \o p : s \in ContentsOf(n - 1), p \in SplitPieces}

Contents == UNION {ContentsOf(n) : n \in 0..MaxPieces}

InitSplit ==
    /\ SystemIdle
    /\ boldText = ""
    /\ boldRange = <<0, 0>>
    /\ boldRuns = NotYet
    /\ boldRendered = NotYet
    /\ boldIndexMap = NotYet
    /\ boldUpdated = NotYet
    /\ boldToggles = <<>>
    /\ splitContent \in Contents
    /\ splitParts = NotYet

\* Card.handleSplitCard up to the test of keptContent and movedContent
ComputeSplit ==
    /\ ~splitParts.computed
    /\ splitParts' = Computed(OverflowSplit(splitContent))
    /\ UNCHANGED <<boldText, boldRange, boldRuns, boldRendered, boldIndexMap,
                   boldUpdated, boldToggles, splitContent, segVars, appVars>>

NextSplit == ComputeSplit

SpecSplit == InitSplit /\ [][NextSplit]_vars

\* C19 as stated: for every non-empty content the kept part and the moved
\* part are both non-empty.
C19_BothPartsNonEmpty ==
    (splitParts.computed /\ splitContent # "")
        => splitParts.value.kept # "" /\ splitParts.value.moved # ""

\* C20 as stated: for every non-empty content the kept part differs from the
\* content.
C20_KeptDiffersFromContent ==
    (splitParts.computed /\ splitContent # "") => splitParts.value.kept # splitContent


\* the test `keptContent && movedContent` that guards onUpdate and onSplit
SplitPerformed(parts) == parts.kept # "" /\ parts.moved # ""

\* C21 as stated: for an empty or single-character content the split is not
\* performed (neither onUpdate nor onSplit is invoked).
C21_ShortContentNotSplit ==
    (splitParts.computed /\ Len(splitContent) <= 1) => ~SplitPerformed(splitParts.value)


\* the content has a blank-line paragraph break
HasBreak(content) == Hits(content, "\n\n") # {}

\* the sentences from index a to index b of the content, concatenated
SentencesJoined(content, a, b) == Join(SubSeq(MatchSentences(content), a, b), "")

\* C22: without a blank-line break and with n >= 2 sentences the cut is at
\* sentence index (7n) div 10: kept is the sentences before it, trimmed, and
\* moved the sentences from it on, trimmed; with a blank-line break the
\* paragraph rule applies, which cuts at the last break.
C22_SentenceRule ==
    splitParts.computed =>
        LET n == Len(MatchSentences(splitContent))
            cut == (7 * n) \div 10
            lastBreak == SetMax(Hits(splitContent, "\n\n"))
        IN  /\ (~HasBreak(splitContent) /\ n >= 2) =>
                  /\ splitParts.value.kept = Trim(SentencesJoined(splitContent, 1, cut))
                  /\ splitParts.value.moved = Trim(SentencesJoined(splitContent, cut + 1, n))
            /\ HasBreak(splitContent) =>
                  /\ splitParts.value.kept = Sub(splitContent, 1, lastBreak - 1)
                  /\ splitParts.value.moved = Sub(splitContent, lastBreak + 2, Len(splitContent))

C22_Witness ==
    /\ splitContent = "b? b? b? b? "
    /\ splitParts.computed
    /\ splitParts.value = [kept |-> "b? b?", moved |-> "b? b?"]


\* the non-whitespace characters of a string, in order
NonWhite(s) == RemoveChars(s, WhiteSpace)

\* C23 as stated: under the sentence rule every non-whitespace character of
\* the content appears, in order, in kept followed by moved.
C23_SentenceRuleKeepsText ==
    (/\ splitParts.computed
     /\ ~HasBreak(splitContent)
     /\ Len(MatchSentences(splitContent)) >= 2)
        => NonWhite(splitParts.value.kept) \o NonWhite(splitParts.value.moved)
               = NonWhite(splitContent)


\* the fallback's list for the application's texts, tabulated
AppFallback == [t \in AppTexts |-> ListValue(Fallback(t))]

\* the promise of the service call settles and its continuation is run
SpecAppFair == SpecApp /\ WF_vars(SegmentationCompletes)

\* a step of the user: an operation on a card, or the file read of an upload
UserStep == ops' = ops + 1 \/ activeCardIndexForUpload' # activeCardIndexForUpload

\* the steps of a segmentation run: its start leaves the list alone, nothing
\* but the user changes the list while it is pending, and its completion
\* stores a returned list whole, the fallback's list after a primary failure
C24_RunStep ==
    /\ (~isProcessing /\ isProcessing') => cards' = cards
    /\ (isProcessing /\ isProcessing' /\ cards' # cards) => UserStep
    /\ (isProcessing /\ ~isProcessing' /\ uiAlive) =>
           \E r \in AppResponses :
              LET returned == AppSegments[callText, r]
              IN  /\ returned.kind = "list" => cards' = returned.segments
                  /\ returned.kind # "list" => ~uiAlive'
                  /\ Primary(r).threw => returned = AppFallback[callText]

\* C24: a segmentation run leaves the card list alone until it completes,
\* then replaces it in one step by the returned list, which is the fallback's
\* list after a primary failure; and isProcessing is eventually false again.
C24_NoPartialState == [][C24_RunStep]_vars /\ (isProcessing ~> ~isProcessing)

C24_Witness ==
    /\ ~isProcessing
    /\ uiAlive
    /\ ops >= 1
    /\ inputText = "## Header\nBody text."
    /\ cards = Fallback(inputText)
    /\ \A k \in 1..Len(comps) : comps[k] = Synced(cards[k])


\* a step taken while the run is pending, read without the user's operations
C24_FrozenStep ==
    /\ C24_RunStep
    /\ (isProcessing /\ isProcessing') => cards' = cards

\* C24 as stated: from the start of handleProcess until splitTextIntoCards
\* completes the card list is unchanged by anything, the completion stores
\* the returned list, and isProcessing is eventually false again.
C24_ListFrozenWhilePending ==
    [][C24_FrozenStep]_vars /\ (isProcessing ~> ~isProcessing)


\* the text and selection toggle k was applied to
C25_Input(k) ==
    IF k = 1
    THEN [newText |-> boldText, newStart |-> boldRange[1], newEnd |-> boldRange[2]]
    ELSE boldToggles[k - 1]

\* C25: after a toggle of a non-empty selection the returned endpoints map,
\* in the index map of the new text, to the logical endpoints of the
\* selection in the old text, and lie in order inside the new text.
C25_EndpointsReprojected ==
    \A k \in 1..Len(boldToggles) :
        LET in == C25_Input(k)
            t == boldToggles[k]
            newMap == BuildIndexMap(t.newText)
        IN  in.newStart < in.newEnd =>
                /\ 0 <= t.newStart
                /\ t.newStart <= t.newEnd
                /\ t.newEnd <= Len(t.newText)
                /\ newMap[t.newStart + 1] = PlainStart(in.newText, in.newStart)
                /\ newMap[t.newEnd + 1] = PlainEnd(in.newText, in.newEnd)

\* the middle character of three is made bold and stays selected
C25_Witness ==
    /\ boldText = "aaa"
    /\ boldRange = <<1, 2>>
    /\ Len(boldToggles) >= 1
    /\ boldToggles[1] = [newText |-> "a**a**a", newStart |-> 3, newEnd |-> 6]


\* a step of a user operation that makes the list one card longer
C26_SplitStep ==
    /\ ops' = ops + 1
    /\ isProcessing' = isProcessing
    /\ Len(cards') = Len(cards) + 1

\* the list after the step is the list before it with card i rewritten to the
\* kept part and a standard card with the moved part inserted after it; the
\* layout of card i is compared through LayoutOf and the other slots through
\* Same
C26_SplitOf(i, LayoutOf(_), Same(_, _)) ==
    LET parts == OverflowSplit(comps[i].editContent)
    IN  /\ parts.kept # ""
        /\ parts.moved # ""
        /\ "title" \in DOMAIN cards'[i]
        /\ cards'[i].title = cards[i].title
        /\ LayoutOf(cards'[i].layout) = LayoutOf(cards[i].layout)
        /\ cards'[i].content = parts.kept
        /\ cards'[i + 1] = Seg("", parts.moved, "standard")
        /\ \A k \in 1..(i - 1) : Same(cards'[k], cards[k])
        /\ \A k \in (i + 1)..Len(cards) : Same(cards'[k + 1], cards[k])

C26_Stored(layout) == layout

C26_Equal(a, b) == a = b

C27_Stripped(txt) == PlainText(BuildSegments(txt))

\* C27: toggleBoldAtSelection never changes the logical text: for every raw
\* string and every range, zero-width or not, the text returned has the same
\* marker-stripped text as the text it was applied to.
C27_LogicalTextKept ==
    \A k \in 1..Len(boldToggles) :
        C27_Stripped(boldToggles[k].newText) = C27_Stripped(C25_Input(k).newText)

\* an asterisk of the text is made bold, and the selection returned is
\* toggled again
C27_Witness ==
    /\ boldText = "a*a"
    /\ boldRange = <<1, 2>>
    /\ Len(boldToggles) = 2
    /\ boldToggles[1].newText = "a*****a"
    /\ boldToggles[1].newStart < boldToggles[1].newEnd


\* the contents of the standard segments of a list, in order
C28_Contents(segs) ==
    LET std == SelectSeq(segs, LAMBDA s : s.layout = "standard")
    IN  [k \in 1..Len(std) |-> std[k].content]

\* the non-blank paragraphs of the text that are not headers, in order
C28_BodyParagraphs(t) == SelectSeq(RawParagraphs(t), LAMBDA p : ~IsHeader(p))

\* C28: the fallback neither loses nor duplicates body text: the contents of
\* the returned standard segments joined with "\n\n" are the non-blank,
\* non-header paragraphs of the input joined with "\n\n".
C28_BodyTextKept ==
    FallbackReturned =>
        Join(C28_Contents(result.segments), "\n\n") = Join(C28_BodyParagraphs(text), "\n\n")


\* C29: in every reachable state the card at position i is in editing mode
\* exactly when editingIndex is i, so at most one card is in editing mode and
\* a re-run during an edit leaves no card in editing mode.
C29_EditingMatchesIndex ==
    uiAlive => \A i \in 1..Len(comps) : comps[i].isEditing <=> editingIndex = i


\* a card is being edited: App has its index and the Card is in editing mode
C30_Editing ==
    /\ editingIndex \in 1..Len(comps)
    /\ comps[editingIndex].isEditing

\* the step of a save from the toolbar: the edit ends and the list is written
C30_SaveStep ==
    /\ C30_Editing
    /\ editingIndex' = 0
    /\ ops' = ops + 1
    /\ cards' # cards

\* the step of an overflow split of a card before the card being edited
C30_SplitBeforeEdited ==
    /\ C30_Editing
    /\ C26_SplitStep
    /\ \E i \in 1..(editingIndex - 1) : cards'[i + 1] # cards[i + 1]

C30_Step ==
    /\ C30_SaveStep =>
          /\ Len(cards') = Len(cards)
          /\ cards'[editingIndex] =
                 Buffers(comps[editingIndex], comps[editingIndex].editContent,
                         comps[editingIndex].currentLayout)
          /\ \A k \in 1..Len(cards) : k # editingIndex => SameCard(cards'[k], cards[k])
    /\ C30_SplitBeforeEdited =>
          /\ editingIndex' \in 1..Len(cards')
          /\ cards'[editingIndex'] = cards[editingIndex]
          /\ comps'[editingIndex'] = comps[editingIndex]

\* C30: a save writes the edit buffers to the segment whose editing was
\* started and to no other: the save writes the position App holds for the
\* edit, and an overflow split of an earlier card moves the edit, index and
\* buffers, along with the segment it was started on.
C30_SaveHitsEditedSegment == [][C30_Step]_vars

\* the last card was being edited when the second card was split, and the
\* save wrote its buffers over the inserted card
C30_InsertedOverwritten ==
    /\ ops = 3
    /\ editingIndex = 0
    /\ Len(cards) = 4
    /\ cards[2] = Seg("Note Sequence", "## Header\nBody...", "standard")
    /\ cards[3] = Seg("The End", "", "cover")
    /\ cards[4] = Seg("The End", "", "cover")

=============================================================================
